---- MODULE Spec2Model ----
(***************************************************************************)
(* MockOffloadManager (redcomponent::offloading): the offload coordinator  *)
(* as a state machine.  Every public method takes the single mutex for its *)
(* whole body, so in the sequential specifications one action is one call. *)
(* SpecConc splits start_offload into its lock-held steps and runs it from *)
(* several threads.                                                        *)
(*                                                                         *)
(* Conventions                                                             *)
(*  - std::optional<T> is a sequence: <<>> is nullopt, <<x>> holds x.      *)
(*  - std::function hooks are optionals of the constant they return.       *)
(*  - a std::string built by concatenation is the sequence of its parts.   *)
(*  - byte counts are in MB, storage in GB; size_t wraps modulo SizeMod.   *)
(*  - events is what the four notification points (set_status on a change, *)
(*    notify_error, notify_progress, notify_complete) dispatched during    *)
(*    the last call, in order; op and ret are that call and its result.    *)
(*  - timing fields of OffloadProgress (start_time, last_update, elapsed,  *)
(*    rates) and the descriptive fields of TargetNode (host, port, region, *)
(*    cluster, total/used storage) are read by no branch and are left out. *)
(***************************************************************************)
EXTENDS Integers, Sequences, FiniteSets, TLC

VARIABLES status, progress, current_target, last_result, offload_data_ids,
          available_nodes, config, now,
          start_hook, cancel_hook, nodes_hook, select_node_hook,
          op, ret, events,
          mutex, pc, tret

core     == <<status, progress, current_target, last_result, offload_data_ids>>
registry == <<available_nodes, config, now>>
hooks    == <<start_hook, cancel_hook, nodes_hook, select_node_hook>>
obs      == <<op, ret, events>>
threads  == <<mutex, pc, tret>>
vars     == <<core, registry, hooks, obs, threads>>

\* ------------------------------------------------------------------ bounds
\* simulate_progress is called while segments_completed is below this
MaxProgressCalls == 2
\* length of the node registry
MaxNodes == 4
\* ticks of the steady clock
MaxClock == 1
\* threads calling start_offload concurrently
NumThreads == 3

\* ------------------------------------------------------- program constants
\* progress_.total_bytes = 100 * 1024 * 1024, in MB
MockTotalBytes == 100
\* progress_.segments_total = 100
MockSegmentsTotal == 100
\* width of size_t, scaled with the byte unit: subtraction wraps modulo it
SizeMod == 2 ^ 16

Statuses == {"Idle", "Preparing", "Transferring", "Completing",
             "Completed", "Failed", "Cancelled", "Paused"}

NodeHealths == {"Healthy", "Degraded", "Unhealthy", "Unknown"}

None == <<>>
Some(x) == <<x>>

\* --------------------------------------------------------------- data model
\* mutant: the health test is dropped
can_accept_offload_NoHealth(node) ==
    /\ node.accepting_offloads
    /\ node.active_offload_count < node.max_concurrent_offloads

\* mutant: the test against max_concurrent_offloads is dropped
can_accept_offload_NoCapacity(node) ==
    /\ node.accepting_offloads
    /\ node.health = "Healthy"

can_accept_offload(node) ==
    /\ node.accepting_offloads
    /\ node.health = "Healthy"
    /\ node.active_offload_count < node.max_concurrent_offloads

create_mock_node(id, available_storage, cpu, memory, t) ==
    [node_id |-> id,
     available_storage_bytes |-> available_storage,
     cpu_usage_percent |-> cpu,
     memory_usage_percent |-> memory,
     health |-> "Healthy",
     accepting_offloads |-> TRUE,
     active_offload_count |-> 0,
     max_concurrent_offloads |-> 10,
     last_health_check |-> t]

\* create_mock_node's defaults: cpu = 30.0, memory = 40.0
DefaultNodes(t) ==
    << create_mock_node("node1", 100, 30, 40, t),
       create_mock_node("node2", 200, 30, 40, t),
       create_mock_node("node3", 50, 30, 40, t) >>

\* a default-constructed TargetNode (OffloadResult::target_node when no
\* target is selected)
DefaultTargetNode ==
    [node_id |-> "",
     available_storage_bytes |-> 0,
     cpu_usage_percent |-> 0,
     memory_usage_percent |-> 0,
     health |-> "Unknown",
     accepting_offloads |-> TRUE,
     active_offload_count |-> 0,
     max_concurrent_offloads |-> 10,
     last_health_check |-> 0]

\* the fields of OffloadConfig that bound target admission, and segment_size
DefaultConfig ==
    [segment_size |-> 1,
     min_available_storage_bytes |-> 1,
     max_target_cpu_usage |-> 80,
     max_target_memory_usage |-> 85]

\* OffloadProgress{}
DefaultProgress ==
    [total_bytes |-> 0, transferred_bytes |-> 0, pending_bytes |-> 0,
     segments_total |-> 0, segments_completed |-> 0, segments_failed |-> 0,
     segments_pending |-> 0, error_message |-> None]

\* OffloadProgress::progress_percent() as the fraction <<numerator,
\* denominator>> of its double result
progress_percent(p) ==
    IF p.total_bytes = 0 THEN <<0, 1>>
    ELSE <<100 * p.transferred_bytes, p.total_bytes>>

\* start_offload's "Initialize progress"
StartProgress ==
    [DefaultProgress EXCEPT !.total_bytes = MockTotalBytes,
                            !.pending_bytes = MockTotalBytes,
                            !.segments_total = MockSegmentsTotal,
                            !.segments_pending = MockSegmentsTotal]

is_active ==
    \/ status = "Preparing"
    \/ status = "Transferring"
    \/ status = "Completing"
    \/ status = "Paused"

\* ------------------------------------------------------ notification points
\* set_status(new_status) called with status_ = old: the dispatched events
set_status(old, new) ==
    IF old # new THEN << <<"status", old, new>> >> ELSE << >>

\* mutant: the error subscriber is not called
notify_error_Silent(error) == << >>

notify_error(error) == << <<"error", error>> >>

notify_progress(p) == << <<"progress", p>> >>

\* mutant: every result is marked successful
MakeResult_AlwaysSuccess(success, p, tgt) ==
    [success |-> TRUE,
     final_progress |-> p,
     target_node |-> IF tgt # None THEN tgt[1] ELSE DefaultTargetNode,
     error_message |-> IF ~success /\ p.error_message # None
                       THEN p.error_message ELSE None]

\* mutant: the result carries a zeroed progress record
MakeResult_ZeroedProgress(success, p, tgt) ==
    [success |-> success,
     final_progress |-> DefaultProgress,
     target_node |-> IF tgt # None THEN tgt[1] ELSE DefaultTargetNode,
     error_message |-> IF ~success /\ p.error_message # None
                       THEN p.error_message ELSE None]

\* the OffloadResult notify_complete(success) builds from progress p and
\* current target tgt
MakeResult(success, p, tgt) ==
    [success |-> success,
     final_progress |-> p,
     target_node |-> IF tgt # None THEN tgt[1] ELSE DefaultTargetNode,
     error_message |-> IF ~success /\ p.error_message # None
                       THEN p.error_message ELSE None]

notify_complete(r) == << <<"complete", r>> >>

\* ------------------------------------------------------------ lifecycle
\* mutant: a start is also admitted while Transferring
StartAllowedFrom_AlsoTransferring(s) ==
    s = "Idle" \/ s = "Paused" \/ s = "Transferring"

\* mutant: a start is admitted from Idle only
StartAllowedFrom_IdleOnly(s) == s = "Idle"

\* start_offload's test on status_: the statuses a start is admitted from
StartAllowedFrom(s) == s = "Idle" \/ s = "Paused"

\* cancel_offload's test on status_: the statuses a cancel is rejected in
CancelRejectedIn(s) ==
    \/ s = "Idle"
    \/ s = "Completed"
    \/ s = "Failed"
    \/ s = "Cancelled"

\* mutant: a pause is admitted from any active status
PauseAllowedFrom_AnyActive(s) ==
    s = "Transferring" \/ s = "Preparing" \/ s = "Completing"

PauseAllowedFrom(s) == s = "Transferring"

ResumeAllowedFrom(s) == s = "Paused"

\* mutant: the test for a selected target is missing
StartBranch_NoTargetTest ==
    IF start_hook # None THEN "hook"
    ELSE IF ~StartAllowedFrom(status) THEN "bad_status"
    ELSE "admit"

\* start_offload's three tests, in order: which branch the call takes
StartBranch ==
    IF start_hook # None THEN "hook"
    ELSE IF current_target = None THEN "no_target"
    ELSE IF ~StartAllowedFrom(status) THEN "bad_status"
    ELSE "admit"

start_offload(data_ids) ==
    /\ mutex = None
    /\ op' = <<"start_offload", data_ids>>
    /\ CASE StartBranch = "hook" ->
              /\ ret' = start_hook
              /\ status' = IF start_hook[1] THEN "Transferring" ELSE status
              /\ events' = IF start_hook[1]
                           THEN set_status(status, "Transferring") ELSE << >>
              /\ UNCHANGED <<progress, offload_data_ids>>
         [] StartBranch = "no_target" ->
              /\ ret' = Some(FALSE)
              /\ events' = notify_error(<<"No target node selected">>)
              /\ UNCHANGED <<status, progress, offload_data_ids>>
         [] StartBranch = "bad_status" ->
              /\ ret' = Some(FALSE)
              /\ events' = notify_error(
                     <<"Offload already in progress or not in valid state">>)
              /\ UNCHANGED <<status, progress, offload_data_ids>>
         [] StartBranch = "admit" ->
              /\ offload_data_ids' = data_ids
              /\ progress' = StartProgress
              /\ status' = "Transferring"
              /\ events' = set_status(status, "Preparing")
                           \o set_status("Preparing", "Transferring")
              /\ ret' = Some(TRUE)
    /\ UNCHANGED <<current_target, last_result, registry, hooks, threads>>

cancel_offload ==
    /\ mutex = None
    /\ op' = <<"cancel_offload">>
    /\ IF cancel_hook # None THEN
            /\ ret' = cancel_hook
            /\ events' = << >>
            /\ UNCHANGED <<status, last_result>>
       ELSE IF CancelRejectedIn(status) THEN
            /\ ret' = Some(FALSE)
            /\ events' = notify_error(<<"No active offload to cancel">>)
            /\ UNCHANGED <<status, last_result>>
       ELSE
            /\ status' = "Cancelled"
            /\ last_result' = Some(MakeResult(FALSE, progress, current_target))
            /\ events' = set_status(status, "Cancelled")
                         \o notify_complete(
                                MakeResult(FALSE, progress, current_target))
            /\ ret' = Some(TRUE)
    /\ UNCHANGED <<progress, current_target, offload_data_ids,
                   registry, hooks, threads>>

\* mutant: an accepted pause starts the progress record afresh
pause_offload_RestartsProgress ==
    /\ mutex = None
    /\ op' = <<"pause_offload">>
    /\ IF ~PauseAllowedFrom(status) THEN
            /\ ret' = Some(FALSE)
            /\ events' = notify_error(<<"Cannot pause: not transferring">>)
            /\ UNCHANGED <<status, progress>>
       ELSE
            /\ status' = "Paused"
            /\ progress' = StartProgress
            /\ events' = set_status(status, "Paused")
            /\ ret' = Some(TRUE)
    /\ UNCHANGED <<current_target, last_result, offload_data_ids,
                   registry, hooks, threads>>

pause_offload ==
    /\ mutex = None
    /\ op' = <<"pause_offload">>
    /\ IF ~PauseAllowedFrom(status) THEN
            /\ ret' = Some(FALSE)
            /\ events' = notify_error(<<"Cannot pause: not transferring">>)
            /\ UNCHANGED status
       ELSE
            /\ status' = "Paused"
            /\ events' = set_status(status, "Paused")
            /\ ret' = Some(TRUE)
    /\ UNCHANGED <<progress, current_target, last_result, offload_data_ids,
                   registry, hooks, threads>>

resume_offload ==
    /\ mutex = None
    /\ op' = <<"resume_offload">>
    /\ IF ~ResumeAllowedFrom(status) THEN
            /\ ret' = Some(FALSE)
            /\ events' = notify_error(<<"Cannot resume: not paused">>)
            /\ UNCHANGED status
       ELSE
            /\ status' = "Transferring"
            /\ events' = set_status(status, "Transferring")
            /\ ret' = Some(TRUE)
    /\ UNCHANGED <<progress, current_target, last_result, offload_data_ids,
                   registry, hooks, threads>>

force_status(s) ==
    /\ mutex = None
    /\ op' = <<"force_status", s>>
    /\ status' = s
    /\ events' = set_status(status, s)
    /\ ret' = None
    /\ UNCHANGED <<progress, current_target, last_result, offload_data_ids,
                   registry, hooks, threads>>

\* ------------------------------------------------------- transfer outcomes
\* size_t subtraction
SizeSub(a, b) == (a - b) % SizeMod

SizeAdd(a, b) == (a + b) % SizeMod

\* the progress record after simulate_progress(bytes)'s four assignments
ProgressAfter(p, bytes) ==
    LET transferred == SizeAdd(p.transferred_bytes, bytes)
        completed   == SizeAdd(p.segments_completed, 1)
    IN [p EXCEPT !.transferred_bytes = transferred,
                 !.pending_bytes = SizeSub(p.total_bytes, transferred),
                 !.segments_completed = completed,
                 !.segments_pending = SizeSub(p.segments_total, completed)]

\* mutant: pending_bytes is not zeroed
CompletedProgress_KeepsPending(p) ==
    [p EXCEPT !.transferred_bytes = p.total_bytes,
              !.segments_completed = p.segments_total,
              !.segments_pending = 0]

\* the progress record after simulate_complete(true)'s four assignments
CompletedProgress(p) ==
    [p EXCEPT !.transferred_bytes = p.total_bytes,
              !.pending_bytes = 0,
              !.segments_completed = p.segments_total,
              !.segments_pending = 0]

\* simulate_progress has no precondition; the model stops calling it after
\* MaxProgressCalls updates of one record, and allows one late update on top
\* of a completed record
ProgressCallAllowed ==
    \/ progress.segments_completed < MaxProgressCalls
    \/ progress.segments_completed = MockSegmentsTotal

simulate_progress(bytes) ==
    /\ mutex = None
    /\ ProgressCallAllowed
    /\ op' = <<"simulate_progress", bytes>>
    /\ progress' = ProgressAfter(progress, bytes)
    /\ events' = notify_progress(ProgressAfter(progress, bytes))
    /\ ret' = None
    /\ UNCHANGED <<status, current_target, last_result, offload_data_ids,
                   registry, hooks, threads>>

simulate_complete(success) ==
    /\ mutex = None
    /\ op' = <<"simulate_complete", success>>
    /\ IF success THEN
            /\ progress' = CompletedProgress(progress)
            /\ status' = "Completed"
            /\ last_result' = Some(MakeResult(TRUE, CompletedProgress(progress),
                                              current_target))
            /\ events' = set_status(status, "Completing")
                         \o set_status("Completing", "Completed")
                         \o notify_complete(
                                MakeResult(TRUE, CompletedProgress(progress),
                                           current_target))
       ELSE
            /\ status' = "Failed"
            /\ last_result' = Some(MakeResult(FALSE, progress, current_target))
            /\ events' = set_status(status, "Failed")
                         \o notify_complete(
                                MakeResult(FALSE, progress, current_target))
            /\ UNCHANGED progress
    /\ ret' = None
    /\ UNCHANGED <<current_target, offload_data_ids, registry, hooks, threads>>

simulate_error(error) ==
    /\ mutex = None
    /\ op' = <<"simulate_error", error>>
    /\ progress' = [progress EXCEPT !.error_message = Some(error)]
    /\ status' = "Failed"
    /\ last_result' = Some(MakeResult(FALSE, progress', current_target))
    /\ events' = set_status(status, "Failed")
                 \o notify_error(error)
                 \o notify_complete(MakeResult(FALSE, progress', current_target))
    /\ ret' = None
    /\ UNCHANGED <<current_target, offload_data_ids, registry, hooks, threads>>

\* mutant: the selected target survives the reset
reset_KeepsTarget ==
    /\ mutex = None
    /\ op' = <<"reset">>
    /\ status' = "Idle"
    /\ progress' = DefaultProgress
    /\ last_result' = None
    /\ offload_data_ids' = << >>
    /\ start_hook' = None
    /\ cancel_hook' = None
    /\ nodes_hook' = None
    /\ select_node_hook' = None
    /\ available_nodes' = DefaultNodes(now)
    /\ events' = << >>
    /\ ret' = None
    /\ UNCHANGED <<current_target, config, now, threads>>

reset ==
    /\ mutex = None
    /\ op' = <<"reset">>
    /\ status' = "Idle"
    /\ progress' = DefaultProgress
    /\ current_target' = None
    /\ last_result' = None
    /\ offload_data_ids' = << >>
    /\ start_hook' = None
    /\ cancel_hook' = None
    /\ nodes_hook' = None
    /\ select_node_hook' = None
    /\ available_nodes' = DefaultNodes(now)
    /\ events' = << >>
    /\ ret' = None
    /\ UNCHANGED <<config, now, threads>>

\* ------------------------------------------------------------- selection
\* the loop of select_target_node: index of the first node with this id, 0
\* when the loop falls through
FirstWithId(nodes, node_id) ==
    IF \E i \in 1..Len(nodes) : nodes[i].node_id = node_id
    THEN CHOOSE i \in 1..Len(nodes) :
            /\ nodes[i].node_id = node_id
            /\ \A j \in 1..(i - 1) : nodes[j].node_id # node_id
    ELSE 0

\* mutant: the comparison is reversed
MoreStorage_Reversed(node, best) ==
    node.available_storage_bytes < best.available_storage_bytes

\* auto_select_target_node's comparison of a candidate with the best so far
MoreStorage(node, best) ==
    node.available_storage_bytes > best.available_storage_bytes

\* the loop of auto_select_target_node from index i on, best being the index
\* held so far (0 for nullptr)
RECURSIVE BestFrom(_, _, _)
BestFrom(nodes, i, best) ==
    IF i > Len(nodes) THEN best
    ELSE BestFrom(nodes, i + 1,
            IF /\ can_accept_offload(nodes[i])
               /\ \/ best = 0
                  \/ MoreStorage(nodes[i], nodes[best])
            THEN i ELSE best)

select_target_node(node_id) ==
    /\ mutex = None
    /\ op' = <<"select_target_node", node_id>>
    /\ IF select_node_hook # None THEN
            /\ ret' = select_node_hook
            /\ events' = << >>
            /\ UNCHANGED current_target
       ELSE LET i == FirstWithId(available_nodes, node_id) IN
            IF i = 0 THEN
                /\ ret' = Some(FALSE)
                /\ events' = notify_error(<<"Node not found: ", node_id>>)
                /\ UNCHANGED current_target
            ELSE IF ~can_accept_offload(available_nodes[i]) THEN
                /\ ret' = Some(FALSE)
                /\ events' = notify_error(
                       <<"Node ", node_id, " cannot accept offloads">>)
                /\ UNCHANGED current_target
            ELSE
                /\ current_target' = Some(available_nodes[i])
                /\ events' = << >>
                /\ ret' = Some(TRUE)
    /\ UNCHANGED <<status, progress, last_result, offload_data_ids,
                   registry, hooks, threads>>

auto_select_target_node ==
    /\ mutex = None
    /\ op' = <<"auto_select_target_node">>
    /\ LET best == BestFrom(available_nodes, 1, 0) IN
       IF best # 0 THEN
            /\ current_target' = Some(available_nodes[best])
            /\ events' = << >>
            /\ ret' = Some(TRUE)
       ELSE
            /\ ret' = Some(FALSE)
            /\ events' = notify_error(<<"No suitable target node available">>)
            /\ UNCHANGED current_target
    /\ UNCHANGED <<status, progress, last_result, offload_data_ids,
                   registry, hooks, threads>>

clear_target_selection ==
    /\ mutex = None
    /\ op' = <<"clear_target_selection">>
    /\ current_target' = None
    /\ events' = << >>
    /\ ret' = None
    /\ UNCHANGED <<status, progress, last_result, offload_data_ids,
                   registry, hooks, threads>>

\* ------------------------------------------------------------ test hooks
HookValues == {None, Some(TRUE), Some(FALSE)}

set_start_hook(h) ==
    /\ mutex = None
    /\ op' = <<"set_start_hook", h>>
    /\ start_hook' = h
    /\ events' = << >>
    /\ ret' = None
    /\ UNCHANGED <<core, registry, cancel_hook, nodes_hook, select_node_hook,
                   threads>>

set_cancel_hook(h) ==
    /\ mutex = None
    /\ op' = <<"set_cancel_hook", h>>
    /\ cancel_hook' = h
    /\ events' = << >>
    /\ ret' = None
    /\ UNCHANGED <<core, registry, start_hook, nodes_hook, select_node_hook,
                   threads>>

set_select_node_hook(h) ==
    /\ mutex = None
    /\ op' = <<"set_select_node_hook", h>>
    /\ select_node_hook' = h
    /\ events' = << >>
    /\ ret' = None
    /\ UNCHANGED <<core, registry, start_hook, cancel_hook, nodes_hook,
                   threads>>

set_nodes_hook(h) ==
    /\ mutex = None
    /\ op' = <<"set_nodes_hook", h>>
    /\ nodes_hook' = h
    /\ events' = << >>
    /\ ret' = None
    /\ UNCHANGED <<core, registry, start_hook, cancel_hook, select_node_hook,
                   threads>>

\* ---------------------------------------------------------- node registry
\* get_available_nodes(): the hook's list when one is installed
get_available_nodes ==
    IF nodes_hook # None THEN nodes_hook[1] ELSE available_nodes

\* std::remove_if + erase: the nodes whose id differs, in order
RECURSIVE WithoutId(_, _)
WithoutId(nodes, node_id) ==
    IF nodes = << >> THEN << >>
    ELSE IF Head(nodes).node_id = node_id
         THEN WithoutId(Tail(nodes), node_id)
         ELSE <<Head(nodes)>> \o WithoutId(Tail(nodes), node_id)

\* set_node_health's loop: the first node with this id gets the health
WithHealth(nodes, node_id, health) ==
    LET i == FirstWithId(nodes, node_id) IN
    IF i = 0 THEN nodes ELSE [nodes EXCEPT ![i].health = health]

\* get_config(): the configuration a caller reads
get_config == config

set_config(c) ==
    /\ mutex = None
    /\ op' = <<"set_config", c>>
    /\ config' = c
    /\ events' = << >>
    /\ ret' = None
    /\ UNCHANGED <<core, available_nodes, now, hooks, threads>>

\* mutant: the refresh also marks every node Healthy
refresh_nodes_MarksHealthy ==
    /\ mutex = None
    /\ op' = <<"refresh_nodes">>
    /\ available_nodes' = [i \in 1..Len(available_nodes) |->
                              [available_nodes[i] EXCEPT !.last_health_check = now,
                                                         !.health = "Healthy"]]
    /\ events' = << >>
    /\ ret' = Some(TRUE)
    /\ UNCHANGED <<core, config, now, hooks, threads>>

refresh_nodes ==
    /\ mutex = None
    /\ op' = <<"refresh_nodes">>
    /\ available_nodes' = [i \in 1..Len(available_nodes) |->
                              [available_nodes[i] EXCEPT !.last_health_check = now]]
    /\ events' = << >>
    /\ ret' = Some(TRUE)
    /\ UNCHANGED <<core, config, now, hooks, threads>>

add_node(node) ==
    /\ mutex = None
    /\ Len(available_nodes) < MaxNodes
    /\ op' = <<"add_node", node>>
    /\ available_nodes' = Append(available_nodes, node)
    /\ events' = << >>
    /\ ret' = None
    /\ UNCHANGED <<core, config, now, hooks, threads>>

remove_node(node_id) ==
    /\ mutex = None
    /\ op' = <<"remove_node", node_id>>
    /\ available_nodes' = WithoutId(available_nodes, node_id)
    /\ events' = << >>
    /\ ret' = None
    /\ UNCHANGED <<core, config, now, hooks, threads>>

clear_nodes ==
    /\ mutex = None
    /\ op' = <<"clear_nodes">>
    /\ available_nodes' = << >>
    /\ events' = << >>
    /\ ret' = None
    /\ UNCHANGED <<core, config, now, hooks, threads>>

set_node_health(node_id, health) ==
    /\ mutex = None
    /\ op' = <<"set_node_health", node_id, health>>
    /\ available_nodes' = WithHealth(available_nodes, node_id, health)
    /\ events' = << >>
    /\ ret' = None
    /\ UNCHANGED <<core, config, now, hooks, threads>>

\* the steady clock advances between calls
Tick ==
    /\ mutex = None
    /\ now < MaxClock
    /\ now' = now + 1
    /\ UNCHANGED <<core, available_nodes, config, hooks, obs, threads>>

\* ------------------------------------- start_offload, step by step, per thread
\* the data ids thread t passes
ThreadDataIds(t) == <<ToString(t)>>

\* mutant: the body is entered without waiting for the mutex
MutexFree_NoLock == TRUE

\* std::lock_guard<std::mutex> lock(mutex_): blocks until the mutex is free
MutexFree == mutex = None

start_lock(t) ==
    /\ pc[t] = "ready"
    /\ MutexFree
    /\ mutex' = Some(t)
    /\ pc' = [pc EXCEPT ![t] = "check"]
    /\ op' = <<"start_offload", ThreadDataIds(t)>>
    /\ ret' = None
    /\ events' = << >>
    /\ UNCHANGED <<core, registry, hooks, tret>>

start_check(t) ==
    /\ pc[t] = "check"
    /\ CASE StartBranch = "hook" ->
              /\ status' = IF start_hook[1] THEN "Transferring" ELSE status
              /\ events' = events \o (IF start_hook[1]
                                      THEN set_status(status, "Transferring")
                                      ELSE << >>)
              /\ tret' = [tret EXCEPT ![t] = start_hook]
              /\ pc' = [pc EXCEPT ![t] = "unlock"]
         [] StartBranch = "no_target" ->
              /\ events' = events \o notify_error(<<"No target node selected">>)
              /\ tret' = [tret EXCEPT ![t] = Some(FALSE)]
              /\ pc' = [pc EXCEPT ![t] = "unlock"]
              /\ UNCHANGED status
         [] StartBranch = "bad_status" ->
              /\ events' = events \o notify_error(
                     <<"Offload already in progress or not in valid state">>)
              /\ tret' = [tret EXCEPT ![t] = Some(FALSE)]
              /\ pc' = [pc EXCEPT ![t] = "unlock"]
              /\ UNCHANGED status
         [] StartBranch = "admit" ->
              /\ pc' = [pc EXCEPT ![t] = "init"]
              /\ UNCHANGED <<status, events, tret>>
    /\ UNCHANGED <<progress, current_target, last_result, offload_data_ids,
                   registry, hooks, op, ret, mutex>>

start_init(t) ==
    /\ pc[t] = "init"
    /\ offload_data_ids' = ThreadDataIds(t)
    /\ progress' = StartProgress
    /\ pc' = [pc EXCEPT ![t] = "prepare"]
    /\ UNCHANGED <<status, current_target, last_result, registry, hooks, obs,
                   mutex, tret>>

\* mutant: the mutex is released between the two set_status calls
start_prepare_Unlocked(t) ==
    /\ pc[t] = "prepare"
    /\ status' = "Preparing"
    /\ events' = events \o set_status(status, "Preparing")
    /\ mutex' = None
    /\ pc' = [pc EXCEPT ![t] = "transfer"]
    /\ UNCHANGED <<progress, current_target, last_result, offload_data_ids,
                   registry, hooks, op, ret, tret>>

start_prepare(t) ==
    /\ pc[t] = "prepare"
    /\ status' = "Preparing"
    /\ events' = events \o set_status(status, "Preparing")
    /\ pc' = [pc EXCEPT ![t] = "transfer"]
    /\ UNCHANGED <<progress, current_target, last_result, offload_data_ids,
                   registry, hooks, op, ret, mutex, tret>>

start_transfer(t) ==
    /\ pc[t] = "transfer"
    /\ status' = "Transferring"
    /\ events' = events \o set_status(status, "Transferring")
    /\ tret' = [tret EXCEPT ![t] = Some(TRUE)]
    /\ pc' = [pc EXCEPT ![t] = "unlock"]
    /\ UNCHANGED <<progress, current_target, last_result, offload_data_ids,
                   registry, hooks, op, ret, mutex>>

\* the lock_guard's destructor on return
start_unlock(t) ==
    /\ pc[t] = "unlock"
    /\ mutex' = None
    /\ ret' = tret[t]
    /\ pc' = [pc EXCEPT ![t] = "done"]
    /\ UNCHANGED <<core, registry, hooks, op, events, tret>>

\* --------------------------------- the readers, step by step, per thread
get_status_lock(t) ==
    /\ pc[t] = "ready"
    /\ MutexFree
    /\ mutex' = Some(t)
    /\ pc' = [pc EXCEPT ![t] = "gs_read"]
    /\ op' = <<"get_status">>
    /\ ret' = None
    /\ events' = << >>
    /\ UNCHANGED <<core, registry, hooks, tret>>

\* return status_
get_status_read(t) ==
    /\ pc[t] = "gs_read"
    /\ tret' = [tret EXCEPT ![t] = Some(status)]
    /\ pc' = [pc EXCEPT ![t] = "gs_unlock"]
    /\ UNCHANGED <<core, registry, hooks, obs, mutex>>

get_status_unlock(t) ==
    /\ pc[t] = "gs_unlock"
    /\ mutex' = None
    /\ ret' = tret[t]
    /\ pc' = [pc EXCEPT ![t] = "gs_done"]
    /\ UNCHANGED <<core, registry, hooks, op, events, tret>>

get_progress_lock(t) ==
    /\ pc[t] = "ready"
    /\ MutexFree
    /\ mutex' = Some(t)
    /\ pc' = [pc EXCEPT ![t] = "gp_read"]
    /\ op' = <<"get_progress">>
    /\ ret' = None
    /\ events' = << >>
    /\ UNCHANGED <<core, registry, hooks, tret>>

\* return progress_ (a copy of the record)
get_progress_read(t) ==
    /\ pc[t] = "gp_read"
    /\ tret' = [tret EXCEPT ![t] = Some(progress)]
    /\ pc' = [pc EXCEPT ![t] = "gp_unlock"]
    /\ UNCHANGED <<core, registry, hooks, obs, mutex>>

get_progress_unlock(t) ==
    /\ pc[t] = "gp_unlock"
    /\ mutex' = None
    /\ ret' = tret[t]
    /\ pc' = [pc EXCEPT ![t] = "gp_done"]
    /\ UNCHANGED <<core, registry, hooks, op, events, tret>>

is_active_lock(t) ==
    /\ pc[t] = "ready"
    /\ MutexFree
    /\ mutex' = Some(t)
    /\ pc' = [pc EXCEPT ![t] = "ia_read"]
    /\ op' = <<"is_active">>
    /\ ret' = None
    /\ events' = << >>
    /\ UNCHANGED <<core, registry, hooks, tret>>

is_active_read(t) ==
    /\ pc[t] = "ia_read"
    /\ tret' = [tret EXCEPT ![t] = Some(is_active)]
    /\ pc' = [pc EXCEPT ![t] = "ia_unlock"]
    /\ UNCHANGED <<core, registry, hooks, obs, mutex>>

is_active_unlock(t) ==
    /\ pc[t] = "ia_unlock"
    /\ mutex' = None
    /\ ret' = tret[t]
    /\ pc' = [pc EXCEPT ![t] = "ia_done"]
    /\ UNCHANGED <<core, registry, hooks, op, events, tret>>

\* ------------------------------- the mutators, step by step, per thread
\* the byte count thread t passes to simulate_progress
ThreadBytes(t) == 20 + 10 * t

simulate_progress_lock(t) ==
    /\ pc[t] = "ready"
    /\ MutexFree
    /\ mutex' = Some(t)
    /\ pc' = [pc EXCEPT ![t] = "sp_transferred"]
    /\ op' = <<"simulate_progress", ThreadBytes(t)>>
    /\ ret' = None
    /\ events' = << >>
    /\ UNCHANGED <<core, registry, hooks, tret>>

\* progress_.transferred_bytes += bytes
simulate_progress_transferred(t) ==
    /\ pc[t] = "sp_transferred"
    /\ progress' = [progress EXCEPT !.transferred_bytes =
                        SizeAdd(progress.transferred_bytes, ThreadBytes(t))]
    /\ pc' = [pc EXCEPT ![t] = "sp_pending"]
    /\ UNCHANGED <<status, current_target, last_result, offload_data_ids,
                   registry, hooks, obs, mutex, tret>>

\* progress_.pending_bytes = total_bytes - transferred_bytes
simulate_progress_pending(t) ==
    /\ pc[t] = "sp_pending"
    /\ progress' = [progress EXCEPT !.pending_bytes =
                        SizeSub(progress.total_bytes, progress.transferred_bytes)]
    /\ pc' = [pc EXCEPT ![t] = "sp_completed"]
    /\ UNCHANGED <<status, current_target, last_result, offload_data_ids,
                   registry, hooks, obs, mutex, tret>>

\* progress_.segments_completed++
simulate_progress_completed(t) ==
    /\ pc[t] = "sp_completed"
    /\ progress' = [progress EXCEPT !.segments_completed =
                        SizeAdd(progress.segments_completed, 1)]
    /\ pc' = [pc EXCEPT ![t] = "sp_segments"]
    /\ UNCHANGED <<status, current_target, last_result, offload_data_ids,
                   registry, hooks, obs, mutex, tret>>

\* progress_.segments_pending = segments_total - segments_completed
simulate_progress_segments(t) ==
    /\ pc[t] = "sp_segments"
    /\ progress' = [progress EXCEPT !.segments_pending =
                        SizeSub(progress.segments_total, progress.segments_completed)]
    /\ pc' = [pc EXCEPT ![t] = "sp_notify"]
    /\ UNCHANGED <<status, current_target, last_result, offload_data_ids,
                   registry, hooks, obs, mutex, tret>>

simulate_progress_notify(t) ==
    /\ pc[t] = "sp_notify"
    /\ events' = events \o notify_progress(progress)
    /\ pc' = [pc EXCEPT ![t] = "sp_unlock"]
    /\ UNCHANGED <<core, registry, hooks, op, ret, mutex, tret>>

simulate_progress_unlock(t) ==
    /\ pc[t] = "sp_unlock"
    /\ mutex' = None
    /\ ret' = None
    /\ pc' = [pc EXCEPT ![t] = "sp_done"]
    /\ UNCHANGED <<core, registry, hooks, op, events, tret>>

\* thread calls of simulate_complete pass success = true
simulate_complete_lock(t) ==
    /\ pc[t] = "ready"
    /\ MutexFree
    /\ mutex' = Some(t)
    /\ pc' = [pc EXCEPT ![t] = "sc_transferred"]
    /\ op' = <<"simulate_complete", TRUE>>
    /\ ret' = None
    /\ events' = << >>
    /\ UNCHANGED <<core, registry, hooks, tret>>

\* progress_.transferred_bytes = progress_.total_bytes
simulate_complete_transferred(t) ==
    /\ pc[t] = "sc_transferred"
    /\ progress' = [progress EXCEPT !.transferred_bytes = progress.total_bytes]
    /\ pc' = [pc EXCEPT ![t] = "sc_pending"]
    /\ UNCHANGED <<status, current_target, last_result, offload_data_ids,
                   registry, hooks, obs, mutex, tret>>

\* progress_.pending_bytes = 0
simulate_complete_pending(t) ==
    /\ pc[t] = "sc_pending"
    /\ progress' = [progress EXCEPT !.pending_bytes = 0]
    /\ pc' = [pc EXCEPT ![t] = "sc_completed"]
    /\ UNCHANGED <<status, current_target, last_result, offload_data_ids,
                   registry, hooks, obs, mutex, tret>>

\* progress_.segments_completed = progress_.segments_total
simulate_complete_completed(t) ==
    /\ pc[t] = "sc_completed"
    /\ progress' = [progress EXCEPT !.segments_completed = progress.segments_total]
    /\ pc' = [pc EXCEPT ![t] = "sc_segments"]
    /\ UNCHANGED <<status, current_target, last_result, offload_data_ids,
                   registry, hooks, obs, mutex, tret>>

\* progress_.segments_pending = 0
simulate_complete_segments(t) ==
    /\ pc[t] = "sc_segments"
    /\ progress' = [progress EXCEPT !.segments_pending = 0]
    /\ pc' = [pc EXCEPT ![t] = "sc_completing"]
    /\ UNCHANGED <<status, current_target, last_result, offload_data_ids,
                   registry, hooks, obs, mutex, tret>>

\* set_status(OffloadStatus::Completing)
simulate_complete_completing(t) ==
    /\ pc[t] = "sc_completing"
    /\ status' = "Completing"
    /\ events' = events \o set_status(status, "Completing")
    /\ pc' = [pc EXCEPT ![t] = "sc_status"]
    /\ UNCHANGED <<progress, current_target, last_result, offload_data_ids,
                   registry, hooks, op, ret, mutex, tret>>

\* set_status(OffloadStatus::Completed)
simulate_complete_status(t) ==
    /\ pc[t] = "sc_status"
    /\ status' = "Completed"
    /\ events' = events \o set_status(status, "Completed")
    /\ pc' = [pc EXCEPT ![t] = "sc_notify"]
    /\ UNCHANGED <<progress, current_target, last_result, offload_data_ids,
                   registry, hooks, op, ret, mutex, tret>>

\* notify_complete(true)
simulate_complete_notify(t) ==
    /\ pc[t] = "sc_notify"
    /\ last_result' = Some(MakeResult(TRUE, progress, current_target))
    /\ events' = events \o notify_complete(
                               MakeResult(TRUE, progress, current_target))
    /\ pc' = [pc EXCEPT ![t] = "sc_unlock"]
    /\ UNCHANGED <<status, progress, current_target, offload_data_ids,
                   registry, hooks, op, ret, mutex, tret>>

simulate_complete_unlock(t) ==
    /\ pc[t] = "sc_unlock"
    /\ mutex' = None
    /\ ret' = None
    /\ pc' = [pc EXCEPT ![t] = "sc_done"]
    /\ UNCHANGED <<core, registry, hooks, op, events, tret>>

pause_lock(t) ==
    /\ pc[t] = "ready"
    /\ MutexFree
    /\ mutex' = Some(t)
    /\ pc' = [pc EXCEPT ![t] = "pause_body"]
    /\ op' = <<"pause_offload">>
    /\ ret' = None
    /\ events' = << >>
    /\ UNCHANGED <<core, registry, hooks, tret>>

\* the body of pause_offload: the test on status_, then one set_status
pause_body(t) ==
    /\ pc[t] = "pause_body"
    /\ IF ~PauseAllowedFrom(status) THEN
            /\ events' = events \o notify_error(<<"Cannot pause: not transferring">>)
            /\ tret' = [tret EXCEPT ![t] = Some(FALSE)]
            /\ UNCHANGED status
       ELSE
            /\ status' = "Paused"
            /\ events' = events \o set_status(status, "Paused")
            /\ tret' = [tret EXCEPT ![t] = Some(TRUE)]
    /\ pc' = [pc EXCEPT ![t] = "pause_unlock"]
    /\ UNCHANGED <<progress, current_target, last_result, offload_data_ids,
                   registry, hooks, op, ret, mutex>>

pause_unlock(t) ==
    /\ pc[t] = "pause_unlock"
    /\ mutex' = None
    /\ ret' = tret[t]
    /\ pc' = [pc EXCEPT ![t] = "pause_done"]
    /\ UNCHANGED <<core, registry, hooks, op, events, tret>>

\* --------------------------------------------------------- specifications
Threads == 1..NumThreads

\* the state a constructed MockOffloadManager is in
Init ==
    /\ status = "Idle"
    /\ progress = DefaultProgress
    /\ current_target = None
    /\ last_result = None
    /\ offload_data_ids = << >>
    /\ available_nodes = DefaultNodes(0)
    /\ config = DefaultConfig
    /\ now = 0
    /\ start_hook = None
    /\ cancel_hook = None
    /\ nodes_hook = None
    /\ select_node_hook = None
    /\ op = <<"constructor">>
    /\ ret = None
    /\ events = << >>
    /\ mutex = None
    /\ pc = [t \in Threads |-> "ready"]
    /\ tret = [t \in Threads |-> None]

\* ---- Spec: one caller drives the lifecycle, no test hook is installed
DataIdInputs == { << >>, <<"data1">> }
ByteInputs == {30, 80}
ErrorInputs == { <<"Transfer failed: network timeout">> }
SelectInputs == {"node1", "nonexistent"}
\* the statuses no call leaves behind are the ones forced
ForceInputs == {"Preparing", "Completing"}

Next ==
    \/ \E id \in SelectInputs : select_target_node(id)
    \/ clear_target_selection
    \/ \E ids \in DataIdInputs : start_offload(ids)
    \/ cancel_offload
    \/ pause_offload
    \/ resume_offload
    \/ \E s \in ForceInputs : force_status(s)
    \/ \E b \in ByteInputs : simulate_progress(b)
    \/ \E b \in BOOLEAN : simulate_complete(b)
    \/ \E e \in ErrorInputs : simulate_error(e)
    \/ reset

Spec == Init /\ [][Next]_vars

\* ---- SpecHooks: the lifecycle with the start and cancel hooks installable
HookByteInputs == {80}
HookSelectInputs == {"node1"}

NextHooks ==
    \/ \E id \in HookSelectInputs : select_target_node(id)
    \/ clear_target_selection
    \/ \E ids \in DataIdInputs : start_offload(ids)
    \/ cancel_offload
    \/ pause_offload
    \/ resume_offload
    \/ \E s \in ForceInputs : force_status(s)
    \/ \E b \in HookByteInputs : simulate_progress(b)
    \/ \E b \in BOOLEAN : simulate_complete(b)
    \/ reset
    \/ \E h \in HookValues : set_start_hook(h)
    \/ \E h \in HookValues : set_cancel_hook(h)

SpecHooks == Init /\ [][NextHooks]_vars

\* ---- SpecSel: the registry changes under the selection calls
\* nodes handed to add_node: create_mock_node results with fields then set
TieNode == create_mock_node("node0", 200, 30, 40, 0)
FullNode ==
    [create_mock_node("node5", 300, 30, 40, 0) EXCEPT !.active_offload_count = 10]
ClosedNode ==
    [create_mock_node("node6", 400, 30, 40, 0) EXCEPT !.accepting_offloads = FALSE]

NodeInputs == {TieNode, FullNode, ClosedNode}
SelSelectInputs == {"node1", "node2", "node5", "node6", "nonexistent"}
RemoveInputs == {"node1", "node2"}
HealthIdInputs == {"node2"}
HealthInputs == {"Healthy", "Unhealthy"}
\* a configuration whose admission bounds the default nodes do not meet
StrictConfig ==
    [segment_size |-> 2,
     min_available_storage_bytes |-> 150,
     max_target_cpu_usage |-> 20,
     max_target_memory_usage |-> 30]
ConfigInputs == {DefaultConfig, StrictConfig}

NextSel ==
    \/ \E id \in SelSelectInputs : select_target_node(id)
    \/ auto_select_target_node
    \/ clear_target_selection
    \/ \E n \in NodeInputs : add_node(n)
    \/ \E id \in RemoveInputs : remove_node(id)
    \/ clear_nodes
    \/ \E id \in HealthIdInputs, h \in HealthInputs : set_node_health(id, h)
    \/ \E c \in ConfigInputs : set_config(c)
    \/ \E h \in HookValues : set_select_node_hook(h)

SpecSel == Init /\ [][NextSel]_vars

\* ---- SpecConc: a caller selects, then threads race on start_offload
ConcSelectInputs == {"node1", "node2", "nonexistent"}

\* no racing thread has been launched yet
NotLaunched == \A t \in Threads : pc[t] = "ready"

NextConc ==
    \/ \E id \in ConcSelectInputs : NotLaunched /\ select_target_node(id)
    \/ NotLaunched /\ clear_target_selection
    \/ \E t \in Threads : start_lock(t)
    \/ \E t \in Threads : start_check(t)
    \/ \E t \in Threads : start_init(t)
    \/ \E t \in Threads : start_prepare(t)
    \/ \E t \in Threads : start_transfer(t)
    \/ \E t \in Threads : start_unlock(t)

SpecConc == Init /\ [][NextConc]_vars

\* ---- SpecReset: reset after the lifecycle, the hooks and the registry moved
ResetDataIdInputs == { <<"data1">> }
ResetHookInputs == { Some(FALSE) }
\* the list a nodes hook returns
NodesHookInputs == { Some(<< >>) }
ResetHealthInputs == {"Unhealthy"}

NextReset ==
    \/ \E id \in HookSelectInputs : select_target_node(id)
    \/ \E ids \in ResetDataIdInputs : start_offload(ids)
    \/ pause_offload
    \/ \E b \in HookByteInputs : simulate_progress(b)
    \/ \E e \in ErrorInputs : simulate_error(e)
    \/ \E id \in RemoveInputs : remove_node(id)
    \/ \E id \in HealthIdInputs, h \in ResetHealthInputs : set_node_health(id, h)
    \/ \E h \in ResetHookInputs : set_start_hook(h)
    \/ \E h \in ResetHookInputs : set_cancel_hook(h)
    \/ \E h \in ResetHookInputs : set_select_node_hook(h)
    \/ \E h \in NodesHookInputs : set_nodes_hook(h)
    \/ refresh_nodes
    \/ Tick
    \/ reset

SpecReset == Init /\ [][NextReset]_vars

\* ---- SpecConfig: the configuration is set around and during an operation
NextConfig ==
    \/ \E id \in HookSelectInputs : select_target_node(id)
    \/ \E ids \in ResetDataIdInputs : start_offload(ids)
    \/ \E c \in ConfigInputs : set_config(c)
    \/ pause_offload
    \/ resume_offload
    \/ cancel_offload
    \/ \E b \in HookByteInputs : simulate_progress(b)
    \/ \E b \in BOOLEAN : simulate_complete(b)
    \/ reset

SpecConfig == Init /\ [][NextConfig]_vars

\* ---- SpecRead: after a selection and a start, each thread makes one call,
\* a reader or a mutator
\* one step of one thread's call
ThreadSteps ==
    \/ \E t \in Threads : start_lock(t)
    \/ \E t \in Threads : start_check(t)
    \/ \E t \in Threads : start_init(t)
    \/ \E t \in Threads : start_prepare(t)
    \/ \E t \in Threads : start_transfer(t)
    \/ \E t \in Threads : start_unlock(t)
    \/ \E t \in Threads : get_status_lock(t)
    \/ \E t \in Threads : get_status_read(t)
    \/ \E t \in Threads : get_status_unlock(t)
    \/ \E t \in Threads : get_progress_lock(t)
    \/ \E t \in Threads : get_progress_read(t)
    \/ \E t \in Threads : get_progress_unlock(t)
    \/ \E t \in Threads : is_active_lock(t)
    \/ \E t \in Threads : is_active_read(t)
    \/ \E t \in Threads : is_active_unlock(t)
    \/ \E t \in Threads : simulate_progress_lock(t)
    \/ \E t \in Threads : simulate_progress_transferred(t)
    \/ \E t \in Threads : simulate_progress_pending(t)
    \/ \E t \in Threads : simulate_progress_completed(t)
    \/ \E t \in Threads : simulate_progress_segments(t)
    \/ \E t \in Threads : simulate_progress_notify(t)
    \/ \E t \in Threads : simulate_progress_unlock(t)
    \/ \E t \in Threads : simulate_complete_lock(t)
    \/ \E t \in Threads : simulate_complete_transferred(t)
    \/ \E t \in Threads : simulate_complete_pending(t)
    \/ \E t \in Threads : simulate_complete_completed(t)
    \/ \E t \in Threads : simulate_complete_segments(t)
    \/ \E t \in Threads : simulate_complete_completing(t)
    \/ \E t \in Threads : simulate_complete_status(t)
    \/ \E t \in Threads : simulate_complete_notify(t)
    \/ \E t \in Threads : simulate_complete_unlock(t)
    \/ \E t \in Threads : pause_lock(t)
    \/ \E t \in Threads : pause_body(t)
    \/ \E t \in Threads : pause_unlock(t)

NextRead ==
    \/ \E id \in HookSelectInputs : NotLaunched /\ select_target_node(id)
    \/ \E ids \in ResetDataIdInputs : NotLaunched /\ start_offload(ids)
    \/ ThreadSteps

SpecRead == Init /\ [][NextRead]_vars

\* ---- SpecFrame: selection, lifecycle and registry calls with no hook
NextFrame ==
    \/ \E id \in ConcSelectInputs : select_target_node(id)
    \/ auto_select_target_node
    \/ clear_target_selection
    \/ \E ids \in ResetDataIdInputs : start_offload(ids)
    \/ pause_offload
    \/ resume_offload
    \/ cancel_offload
    \/ \E b \in HookByteInputs : simulate_progress(b)
    \/ \E id \in HealthIdInputs, h \in ResetHealthInputs : set_node_health(id, h)
    \/ clear_nodes
    \/ refresh_nodes
    \/ Tick
    \/ reset

SpecFrame == Init /\ [][NextFrame]_vars

\* ---- SpecResult: the lifecycle and its outcomes, no status forced and no
\* start hook
NextResult ==
    \/ \E id \in SelectInputs : select_target_node(id)
    \/ clear_target_selection
    \/ \E ids \in DataIdInputs : start_offload(ids)
    \/ cancel_offload
    \/ pause_offload
    \/ resume_offload
    \/ \E b \in HookByteInputs : simulate_progress(b)
    \/ \E b \in BOOLEAN : simulate_complete(b)
    \/ \E e \in ErrorInputs : simulate_error(e)
    \/ reset
    \/ \E h \in HookValues : set_cancel_hook(h)

SpecResult == Init /\ [][NextResult]_vars

\* ---- SpecCallback: the threads of SpecRead with subscribers that may call
\* the manager from inside a callback
\* the positions a thread is at right after a step that calls a subscriber:
\* set_status (line 55), notify_error (61), notify_progress (72) and
\* notify_complete (89) call the subscriber inside the caller's body
PostDispatchPcs ==
    {"transfer", "unlock", "sp_unlock", "sc_status", "sc_notify", "sc_unlock",
     "pause_unlock"}

\* thread t has called a subscriber, which has not returned yet
CallbackRunning(t) == pc[t] \in PostDispatchPcs /\ events # << >>

\* the public methods a subscriber calls
CallbackMethods == {"get_status", "get_progress"}

\* the running subscriber calls get_status() or get_progress(): the method's
\* lock_guard waits for mutex_, returns the member once it has it and
\* releases it again; while mutex_ is held, the call waits
callback_call(t, m) ==
    /\ CallbackRunning(t)
    /\ op' = <<"callback", m>>
    /\ IF MutexFree THEN
            /\ ret' = Some(IF m = "get_status" THEN status ELSE progress)
            /\ UNCHANGED pc
       ELSE
            /\ ret' = None
            /\ pc' = [pc EXCEPT ![t] = "cb_blocked"]
    /\ UNCHANGED <<core, registry, hooks, events, mutex, tret>>

\* locking a std::mutex the thread already owns is undefined: the call waits
\* for ever (no step), or lock() reports resource_deadlock_would_occur and the
\* exception unwinds the subscriber and the method that called it, whose
\* lock_guard releases mutex_
callback_throw(t) ==
    /\ pc[t] = "cb_blocked"
    /\ mutex = Some(t)
    /\ mutex' = None
    /\ pc' = [pc EXCEPT ![t] = "threw"]
    /\ tret' = [tret EXCEPT ![t] = None]
    /\ ret' = None
    /\ UNCHANGED <<core, registry, hooks, op, events>>

NextCallback ==
    \/ \E id \in HookSelectInputs : NotLaunched /\ select_target_node(id)
    \/ ThreadSteps
    \/ \E t \in Threads : \E m \in CallbackMethods : callback_call(t, m)
    \/ \E t \in Threads : callback_throw(t)

SpecCallback == Init /\ [][NextCallback]_vars

\* ================================================================= claims
\* the admission predicate as the claims state it: accepting offloads,
\* Healthy, below max_concurrent_offloads
Admissible(node) ==
    /\ node.accepting_offloads = TRUE
    /\ node.health = "Healthy"
    /\ node.active_offload_count < node.max_concurrent_offloads

ActiveStatuses == {"Transferring", "Preparing", "Completing"}
TerminalStatuses == {"Completed", "Failed", "Cancelled"}

\* ---- C1
C1_Step ==
    (op'[1] = "start_offload" /\ status \in ActiveStatuses)
        => /\ ret' = Some(FALSE)
           /\ status' = status
           /\ progress' = progress
           /\ offload_data_ids' = offload_data_ids

\* C1 as stated: every start_offload call made while status is Transferring,
\* Preparing or Completing returns false and leaves status, progress and the
\* recorded data ids as they were.
C1_Original == [][C1_Step]_vars

\* C1 amended: with no start hook installed, a start_offload call made while
\* status is Transferring, Preparing or Completing returns false and leaves
\* status, progress and the recorded data ids as they were.
C1_RejectsWhileActive == [][start_hook = None => C1_Step]_vars

\* a start with other data ids was rejected while Transferring with progress
\* made: the recorded ids and the progress are still those of the operation
C1_Witness ==
    /\ op = <<"start_offload", << >> >>
    /\ ret = Some(FALSE)
    /\ start_hook = None
    /\ status = "Transferring"
    /\ progress.transferred_bytes > 0
    /\ offload_data_ids = <<"data1">>
    /\ events = notify_error(
           <<"Offload already in progress or not in valid state">>)

\* ---- C2
AllDone == \A t \in Threads : pc[t] = "done"
Winners == {t \in Threads : tret[t] = Some(TRUE)}
Admitted == {t \in Threads : pc[t] \in {"init", "prepare", "transfer"}}

\* C2: threads racing on start_offload on an Idle coordinator with a target
\* selected and no hook: at no point is a second call admitted, and when all
\* have returned exactly one returned true, the others false, and progress
\* and data ids are those of the one initialisation.
C2_ExactlyOneStartWins ==
    (current_target # None /\ start_hook = None)
        => /\ Cardinality(Winners \cup Admitted) <= 1
           /\ AllDone =>
                /\ Cardinality(Winners) = 1
                /\ \A t \in Threads \ Winners : tret[t] = Some(FALSE)
                /\ status = "Transferring"
                /\ progress = StartProgress
                /\ \E w \in Winners : offload_data_ids = ThreadDataIds(w)

C2_Witness ==
    /\ AllDone
    /\ current_target # None
    /\ Cardinality(Winners) = 1
    /\ Cardinality({t \in Threads : tret[t] = Some(FALSE)}) = NumThreads - 1

\* ---- C3
C3_Step ==
    (op'[1] = "start_offload" /\ current_target = None)
        => /\ ret' = Some(FALSE)
           /\ status' = status
           /\ progress' = progress

\* C3 as stated: every start_offload call made with no target selected
\* returns false and leaves status and progress unchanged.
C3_Original == [][C3_Step]_vars

\* C3 amended: with no start hook installed, a start_offload call made with
\* no target selected returns false and leaves status and progress unchanged.
C3_StartWithoutTarget == [][start_hook = None => C3_Step]_vars

C3_Witness ==
    /\ op[1] = "start_offload"
    /\ ret = Some(FALSE)
    /\ start_hook = None
    /\ current_target = None
    /\ status = "Idle"
    /\ events = notify_error(<<"No target node selected">>)

\* ---- C4
C4_Step ==
    (op'[1] = "start_offload" /\ current_target # None
                              /\ status \in {"Idle", "Paused"})
        => /\ ret' = Some(TRUE)
           /\ status' = "Transferring"
           /\ events' = << <<"status", status, "Preparing">>,
                           <<"status", "Preparing", "Transferring">> >>
           /\ is_active'

\* C4 as stated: every start_offload call made with a target selected and
\* status Idle or Paused returns true and leaves status Transferring, having
\* passed through Preparing in the same call; is_active() is true afterwards.
C4_Original == [][C4_Step]_vars

\* C4 amended: the same, with no start hook installed.
C4_StartAccepted == [][start_hook = None => C4_Step]_vars

\* a start was accepted from Paused
C4_Witness ==
    /\ op[1] = "start_offload"
    /\ ret = Some(TRUE)
    /\ start_hook = None
    /\ status = "Transferring"
    /\ events = << <<"status", "Paused", "Preparing">>,
                   <<"status", "Preparing", "Transferring">> >>

\* ---- C5
C5_Step ==
    /\ op'[1] = "pause_offload"
         => IF status = "Transferring"
            THEN ret' = Some(TRUE) /\ status' = "Paused"
            ELSE ret' = Some(FALSE) /\ status' = status
    /\ op'[1] = "resume_offload"
         => IF status = "Paused"
            THEN ret' = Some(TRUE) /\ status' = "Transferring"
            ELSE ret' = Some(FALSE) /\ status' = status

\* C5: pause_offload returns true exactly when status is Transferring and
\* then sets Paused; resume_offload returns true exactly when status is
\* Paused and then sets Transferring; otherwise each returns false and
\* leaves status unchanged.
C5_PauseResume == [][C5_Step]_vars

\* a second pause was rejected while Paused
C5_Witness ==
    /\ op = <<"pause_offload">>
    /\ ret = Some(FALSE)
    /\ status = "Paused"
    /\ events = notify_error(<<"Cannot pause: not transferring">>)

\* ---- C6
\* C6 as stated: cancel_offload is accepted only in status Preparing,
\* Transferring or Paused, and then sets Cancelled; in Idle, Completing,
\* Completed, Failed and Cancelled it returns false and leaves status and
\* last result unchanged.
C6_CancelOnlyFromListed ==
    [][ (op'[1] = "cancel_offload" /\ cancel_hook = None)
          => IF status \in {"Preparing", "Transferring", "Paused"}
             THEN ret' = Some(TRUE) /\ status' = "Cancelled"
             ELSE /\ ret' = Some(FALSE)
                  /\ status' = status
                  /\ last_result' = last_result ]_vars

\* ---- C7
\* C7 as stated: once status is Completed, Failed or Cancelled, every call
\* but reset (and force_status) leaves it at that value, and reset leads to
\* Idle.
C7_TerminalUntilReset ==
    [][ (status \in TerminalStatuses /\ op'[1] # "force_status"
                                     /\ start_hook = None)
          => IF op'[1] = "reset" THEN status' = "Idle"
             ELSE status' = status ]_vars

\* ---- C8
\* the nodes of the registry a select_target_node(id) may rightly return
\* true for
SelectableWithId(id) ==
    \E i \in 1..Len(available_nodes) :
        /\ available_nodes[i].node_id = id
        /\ Admissible(available_nodes[i])

C8_Step ==
    op'[1] = "select_target_node"
        => /\ ret' = Some(TRUE) => SelectableWithId(op'[2])
           /\ ret' = Some(FALSE) => current_target' = current_target

\* C8 as stated: select_target_node(id) returns true only if a node with
\* that id is in the registry and is accepting offloads, Healthy and below
\* its max_concurrent_offloads; when it returns false the selected target is
\* left unchanged.
C8_Original == [][C8_Step]_vars

\* C8 amended: the same, with no select-node hook installed.
C8_SelectOnlyAdmissible == [][select_node_hook = None => C8_Step]_vars

\* selecting the Unhealthy node2 failed and the earlier target is kept
C8_Witness ==
    /\ op = <<"select_target_node", "node2">>
    /\ ret = Some(FALSE)
    /\ select_node_hook = None
    /\ events = notify_error(<<"Node ", "node2", " cannot accept offloads">>)
    /\ current_target # None
    /\ current_target[1].node_id = "node1"

\* ---- C9
\* C9 as stated: the node auto_select_target_node selects has
\* available_storage_bytes >= min_available_storage_bytes, cpu_usage_percent
\* <= max_target_cpu_usage and memory_usage_percent <=
\* max_target_memory_usage, and passes can_accept_offload().
C9_AutoSelectWithinBounds ==
    [][ (op'[1] = "auto_select_target_node" /\ ret' = Some(TRUE))
          => /\ current_target' # None
             /\ LET n == current_target'[1] IN
                /\ n.available_storage_bytes >= config.min_available_storage_bytes
                /\ n.cpu_usage_percent <= config.max_target_cpu_usage
                /\ n.memory_usage_percent <= config.max_target_memory_usage
                /\ Admissible(n) ]_vars

\* ---- C10
C10_Step ==
    (op'[1] = "auto_select_target_node"
       /\ \E i \in 1..Len(available_nodes) : Admissible(available_nodes[i]))
        => /\ ret' = Some(TRUE)
           /\ current_target' # None
           /\ \E i \in 1..Len(available_nodes) :
                  current_target'[1] = available_nodes[i]
           /\ Admissible(current_target'[1])
           /\ \A i \in 1..Len(available_nodes) :
                  Admissible(available_nodes[i])
                    => available_nodes[i].available_storage_bytes
                         <= current_target'[1].available_storage_bytes

\* C10: when some registered node is admissible, auto_select_target_node
\* returns true and selects a registered admissible node whose
\* available_storage_bytes is greatest among the admissible nodes.
C10_AutoSelectMostStorage == [][C10_Step]_vars

\* node1 was selected although a node that is not admissible has more storage
C10_Witness ==
    /\ op = <<"auto_select_target_node">>
    /\ ret = Some(TRUE)
    /\ current_target # None
    /\ \E i \in 1..Len(available_nodes) :
          /\ ~Admissible(available_nodes[i])
          /\ available_nodes[i].available_storage_bytes
               > current_target[1].available_storage_bytes
    /\ \E i \in 1..Len(available_nodes) :
          /\ Admissible(available_nodes[i])
          /\ available_nodes[i].available_storage_bytes
               < current_target[1].available_storage_bytes

\* ---- C11
\* the node ids of the model in lexical order
LexOrder == <<"node0", "node1", "node2", "node3", "node5", "node6">>
LexRank(id) == CHOOSE i \in 1..Len(LexOrder) : LexOrder[i] = id

\* C11 as stated: among the admissible nodes that tie with the selected node
\* on available_storage_bytes, auto_select_target_node selected the one with
\* the lowest active_offload_count and, among those, the lexically smallest
\* node id, whatever the order of the registry.
C11_AutoSelectTieBreak ==
    [][ (op'[1] = "auto_select_target_node" /\ ret' = Some(TRUE))
          => /\ current_target' # None
             /\ LET sel == current_target'[1] IN
                \A i \in 1..Len(available_nodes) :
                    LET n == available_nodes[i] IN
                    (Admissible(n) /\ n.available_storage_bytes
                                        = sel.available_storage_bytes)
                      => \/ sel.active_offload_count < n.active_offload_count
                         \/ /\ sel.active_offload_count = n.active_offload_count
                            /\ LexRank(sel.node_id) <= LexRank(n.node_id) ]_vars

\* ---- C12
NoneAdmissible ==
    \A i \in 1..Len(available_nodes) : ~Admissible(available_nodes[i])

\* C12: when no registered node is admissible (an empty registry included),
\* auto_select_target_node returns false and leaves the current selection
\* as it was.
C12_AutoSelectNoneAdmissible ==
    [][ (op'[1] = "auto_select_target_node" /\ NoneAdmissible)
          => /\ ret' = Some(FALSE)
             /\ current_target' = current_target ]_vars

\* auto-select failed on a registry holding only nodes that are not
\* admissible, and the target selected earlier is still selected
C12_Witness ==
    /\ op = <<"auto_select_target_node">>
    /\ ret = Some(FALSE)
    /\ available_nodes # << >>
    /\ NoneAdmissible
    /\ current_target # None
    /\ events = notify_error(<<"No suitable target node available">>)

\* ---- C13
\* the status-change events among the events of a call
StatusEvents(evs) == SelectSeq(evs, LAMBDA e : e[1] = "status")

\* C13 as stated: the status-change events of a call form a chain from the
\* status before the call to the status after it, each event carrying two
\* different statuses and the previous status of each being the next status
\* of the one before; a call that fires none leaves status unchanged.
C13_StatusEventChain ==
    [][ LET S == StatusEvents(events') IN
        IF S = << >> THEN status' = status
        ELSE /\ S[1][2] = status
             /\ S[Len(S)][3] = status'
             /\ \A i \in 1..Len(S) : S[i][2] # S[i][3]
             /\ \A i \in 1..(Len(S) - 1) : S[i][3] = S[i + 1][2] ]_vars

\* ---- C14
\* C14 as stated: in every reachable state segments_completed +
\* segments_failed + segments_pending = segments_total and transferred_bytes
\* + pending_bytes = total_bytes.
C14_ProgressSums ==
    /\ progress.segments_completed + progress.segments_failed
         + progress.segments_pending = progress.segments_total
    /\ progress.transferred_bytes + progress.pending_bytes
         = progress.total_bytes

\* ---- C15
\* a <= b for fractions with positive denominators
FracLeq(a, b) == a[1] * b[2] <= b[1] * a[2]

\* C15 as stated: from an accepted start (the progress record has its
\* total_bytes) until the next reset, no call lowers progress_percent.
C15_PercentMonotonic ==
    [][ (progress.total_bytes > 0 /\ op'[1] # "reset")
          => FracLeq(progress_percent(progress), progress_percent(progress'))
      ]_vars

\* ---- C16
Counters(p) ==
    <<p.total_bytes, p.transferred_bytes, p.pending_bytes, p.segments_total,
      p.segments_completed, p.segments_failed, p.segments_pending>>

\* C16: pause_offload and resume_offload, accepted or rejected, leave every
\* byte and segment counter of the progress record unchanged.
C16_PauseResumeKeepCounters ==
    [][ op'[1] \in {"pause_offload", "resume_offload"}
          => Counters(progress') = Counters(progress) ]_vars

\* a pause was accepted on an operation with 30 of its 100 MB transferred
C16_Witness ==
    /\ op = <<"pause_offload">>
    /\ ret = Some(TRUE)
    /\ status = "Paused"
    /\ progress.total_bytes = MockTotalBytes
    /\ progress.transferred_bytes = 30
    /\ progress.pending_bytes = MockTotalBytes - 30
    /\ progress.segments_completed = 1

\* ---- C17
\* the registry holds the three default nodes, whatever their health-check
\* time
IsDefaultRegistry(nodes) ==
    /\ Len(nodes) = 3
    /\ \A i \in 1..3 :
          /\ nodes[i].node_id = <<"node1", "node2", "node3">>[i]
          /\ nodes[i].available_storage_bytes = <<100, 200, 50>>[i]
          /\ nodes[i].health = "Healthy"
          /\ nodes[i].accepting_offloads
          /\ nodes[i].active_offload_count = 0

C17_Step ==
    /\ op'[1] = "reset"
         => /\ status' = "Idle"
            /\ current_target' = None
            /\ last_result' = None
            /\ Counters(progress') = <<0, 0, 0, 0, 0, 0, 0>>
            /\ progress'.error_message = None
            /\ offload_data_ids' = << >>
            /\ start_hook' = None /\ cancel_hook' = None
            /\ nodes_hook' = None /\ select_node_hook' = None
            /\ IsDefaultRegistry(available_nodes')
    /\ (op[1] = "reset" /\ op'[1] = "start_offload")
         => /\ ret' = Some(FALSE)
            /\ status' = "Idle"

\* C17: reset, called in any status, leaves status Idle, no selected target,
\* no last result, all progress counters zero with no error message, no
\* recorded data ids, no test hook and the three default nodes in the
\* registry; a start that follows it without a selection is rejected.
C17_ResetRestores == [][C17_Step]_vars

\* the start that followed a reset was rejected; the reset came after the
\* clock had advanced, as the fresh health-check times of the registry show
C17_Witness ==
    /\ op[1] = "start_offload"
    /\ ret = Some(FALSE)
    /\ events = notify_error(<<"No target node selected">>)
    /\ status = "Idle"
    /\ progress = DefaultProgress
    /\ last_result = None
    /\ now = MaxClock
    /\ available_nodes = DefaultNodes(MaxClock)
    /\ hooks = <<None, None, None, None>>

\* ---- C18
CompleteEvents(evs) == SelectSeq(evs, LAMBDA e : e[1] = "complete")

\* C18 as stated: a call fires at most one completion event; it fires one,
\* and creates the result, exactly when it takes status from Preparing,
\* Transferring, Completing or Paused to Completed, Failed or Cancelled; no
\* result is created in Idle or once a terminal status is reached.
C18_ResultOncePerOperation ==
    [][ LET n == Len(CompleteEvents(events')) IN
        /\ n <= 1
        /\ (n = 1) <=> /\ status \in {"Preparing", "Transferring",
                                     "Completing", "Paused"}
                       /\ status' \in TerminalStatuses
        /\ (last_result' # last_result /\ op'[1] # "reset") => n = 1 ]_vars

\* ---- C19
\* C19 as stated: when simulate_error or simulate_complete ends an operation
\* in flight (status Preparing, Transferring, Completing or Paused) in
\* status Failed, the progress error message is set, an error event with
\* that message and a completion event with success = false have fired, and
\* last_result carries the same error message.
C19_FailedCarriesError ==
    [][ (op'[1] \in {"simulate_error", "simulate_complete"}
           /\ status \in {"Preparing", "Transferring", "Completing", "Paused"}
           /\ status' = "Failed")
          => /\ progress'.error_message # None
             /\ \E i \in 1..Len(events') :
                   /\ events'[i][1] = "error"
                   /\ Some(events'[i][2]) = progress'.error_message
             /\ \E i \in 1..Len(events') :
                   /\ events'[i][1] = "complete"
                   /\ events'[i][2].success = FALSE
             /\ last_result' # None
             /\ last_result'[1].error_message = progress'.error_message ]_vars

\* ---- C20
C20_Step ==
    (op'[1] = "cancel_offload" /\ ret' = Some(TRUE))
        => /\ last_result' # None
           /\ last_result'[1].success = FALSE
           /\ last_result'[1].final_progress.transferred_bytes
                = progress.transferred_bytes
           /\ last_result'[1].final_progress.segments_completed
                = progress.segments_completed
           /\ current_target # None
                => last_result'[1].target_node = current_target[1]

\* C20 as stated: every cancel_offload call that returns true records a last
\* result with success = false whose final progress has the transferred
\* bytes and completed segments accumulated before the call and whose target
\* node is the selected target.
C20_Original == [][C20_Step]_vars

\* C20 amended: the same, with no cancel hook installed.
C20_CancelKeepsProgress == [][cancel_hook = None => C20_Step]_vars

\* a cancel was accepted with 80 of the 100 MB transferred to node1
C20_Witness ==
    /\ op = <<"cancel_offload">>
    /\ ret = Some(TRUE)
    /\ cancel_hook = None
    /\ status = "Cancelled"
    /\ last_result # None
    /\ last_result[1].success = FALSE
    /\ last_result[1].final_progress.transferred_bytes = 80
    /\ last_result[1].final_progress.segments_completed = 1
    /\ last_result[1].target_node.node_id = "node1"

\* ---- C21
\* ceil(a / b) for b > 0
CeilDiv(a, b) == (a + b - 1) \div b

\* C21 as stated: the progress record an accepted start_offload initialises
\* has segments_total = ceil(total_bytes / segment_size) for the
\* configuration in force at the start.
C21_SegmentsFromConfig ==
    [][ (op'[1] = "start_offload" /\ ret' = Some(TRUE))
          => progress'.segments_total
               = CeilDiv(progress'.total_bytes, get_config.segment_size) ]_vars

\* ---- C22
\* C22 as stated: a set_config call made while is_active() is true does not
\* change what get_config returns.
C22_ConfigSnapshot ==
    [][ (op'[1] = "set_config" /\ is_active) => get_config' = get_config ]_vars

\* ---- C23
\* a thread whose call has returned
Returned(t) ==
    pc[t] \in {"done", "gs_done", "gp_done", "ia_done", "sp_done", "sc_done",
               "pause_done"}

\* the progress records that complete mutations leave behind: those of
\* construction and of a start, and what up to n complete simulate_progress
\* and simulate_complete calls make of them
RECURSIVE Quiescent(_)
Quiescent(n) ==
    IF n = 0 THEN {DefaultProgress, StartProgress}
    ELSE LET Q == Quiescent(n - 1) IN
         Q \cup {ProgressAfter(p, ThreadBytes(t)) : p \in Q, t \in Threads}
           \cup {CompletedProgress(p) : p \in Q}

\* each thread makes one call, so at most NumThreads mutations complete
QuiescentRecords == Quiescent(NumThreads)

\* C23: while threads read and mutate concurrently, some call can always
\* take its next step until all have returned (no deadlock), and every
\* record get_progress returned is one a complete mutation left behind,
\* never a partially updated one.
C23_ReadsNeverTorn ==
    /\ (\E t \in Threads : ~Returned(t)) => ENABLED ThreadSteps
    /\ \A t \in Threads :
          pc[t] \in {"gp_unlock", "gp_done"}
            => tret[t][1] \in QuiescentRecords

\* a get_progress issued while operations were mutating returned the record
\* of the completed simulate_progress, and a get_status returned too
C23_Witness ==
    \E t, u, v \in Threads :
        /\ pc[t] = "gp_done"
        /\ pc[u] = "sp_done"
        /\ pc[v] = "gs_done"
        /\ tret[t] = Some(ProgressAfter(StartProgress, ThreadBytes(u)))
        /\ tret[v] = Some("Transferring")

\* ---- C28
\* C28: with no force_status call, every status get_status returned to a
\* concurrent reader is one of Idle, Transferring, Paused, Completed, Failed,
\* Cancelled, and is_active returns true exactly for Transferring and Paused:
\* Preparing and Completing are set and left inside one lock-held call.
C28_TransientsNotObserved ==
    \A t \in Threads :
        /\ pc[t] \in {"gs_unlock", "gs_done"}
             => tret[t][1] \in {"Idle", "Transferring", "Paused", "Completed",
                                "Failed", "Cancelled"}
        /\ pc[t] = "ia_unlock"
             => tret[t][1] = (status \in {"Transferring", "Paused"})

\* readers returned Transferring and Completed around a start and a
\* completion made by other threads
C28_Witness ==
    \E t, u, v \in Threads :
        /\ pc[t] = "done" /\ tret[t] = Some(TRUE)
        /\ pc[u] = "gs_done" /\ tret[u] = Some("Transferring")
        /\ pc[v] = "sc_done"
        /\ status = "Completed"

\* ---- C24
ProgressEvents(evs) == SelectSeq(evs, LAMBDA e : e[1] = "progress")

\* C24 as stated: each simulate_progress call fires exactly one progress
\* event, carrying the updated record, and no call changes transferred_bytes
\* or a segment counter without firing a progress event that carries the new
\* record.
C24_ProgressEventPerMutation ==
    [][ LET P == ProgressEvents(events') IN
        /\ op'[1] = "simulate_progress" => P = << <<"progress", progress'>> >>
        /\ Counters(progress') # Counters(progress)
             => /\ P # << >>
                /\ P[Len(P)][2] = progress' ]_vars

\* ---- C25
C25_Outcome ==
    /\ status' = "Completed"
    /\ ~is_active'
    /\ progress'.transferred_bytes = progress'.total_bytes
    /\ progress'.pending_bytes = 0
    /\ progress'.segments_completed = progress'.segments_total
    /\ progress'.segments_pending = 0
    /\ progress_percent(progress')[1] = 100 * progress_percent(progress')[2]
    /\ last_result' # None
    /\ last_result'[1].success = TRUE

\* C25 as stated: simulate_complete(true) on an operation an accepted
\* start_offload started (status Transferring or Paused, reached only through
\* an accepted start) leaves status Completed, is_active() false, transferred
\* = total, pending = 0, segments completed = total, segments pending = 0,
\* progress_percent = 100 and last_result.success true.
C25_Original ==
    [][ (op' = <<"simulate_complete", TRUE>>
           /\ status \in {"Transferring", "Paused"}) => C25_Outcome ]_vars

\* C25 amended: the same for an operation whose start_offload was accepted
\* with no start hook installed, which is when the progress record has its
\* total_bytes.
C25_CompleteReaches100 ==
    [][ (op' = <<"simulate_complete", TRUE>>
           /\ status \in {"Transferring", "Paused"}
           /\ progress.total_bytes > 0) => C25_Outcome ]_vars

\* an operation with 80 MB transferred was paused and then completed
C25_Witness ==
    /\ op = <<"simulate_complete", TRUE>>
    /\ start_hook = None
    /\ status = "Completed"
    /\ progress.transferred_bytes = MockTotalBytes
    /\ progress.segments_completed = MockSegmentsTotal
    /\ last_result # None
    /\ last_result[1].success = TRUE
    /\ events[1] = <<"status", "Paused", "Completing">>

\* ---- C29
\* C29 as stated: no accepted start, pause, resume or cancel on an operation
\* in progress lowers its transferred_bytes or segments_completed.
C29_WorkSurvives ==
    [][ (op'[1] \in {"start_offload", "pause_offload", "resume_offload",
                     "cancel_offload"}
           /\ ret' = Some(TRUE) /\ is_active)
          => /\ progress'.transferred_bytes >= progress.transferred_bytes
             /\ progress'.segments_completed >= progress.segments_completed
      ]_vars

\* ---- C27
\* a node without its health-check time
SansCheck(node) == [node EXCEPT !.last_health_check = 0]

C27_Step ==
    /\ op'[1] \in {"clear_target_selection", "select_target_node",
                   "auto_select_target_node", "start_offload", "pause_offload",
                   "resume_offload", "cancel_offload"}
         => available_nodes' = available_nodes
    /\ op'[1] = "refresh_nodes"
         => /\ Len(available_nodes') = Len(available_nodes)
            /\ \A i \in 1..Len(available_nodes) :
                  SansCheck(available_nodes'[i]) = SansCheck(available_nodes[i])
            /\ status' = status
            /\ progress' = progress
            /\ current_target' = current_target

\* C27: clear_target_selection, select_target_node, auto_select_target_node,
\* start, pause, resume and cancel leave the registry as it was; refresh_nodes
\* keeps the nodes and all their fields but last_health_check, and leaves
\* status, progress and the current selection untouched.
C27_RegistryFrame == [][C27_Step]_vars

\* a refresh after the clock advanced re-stamped the registry: node2 is
\* still Unhealthy, and the target selected earlier keeps its old time
C27_Witness ==
    /\ op = <<"refresh_nodes">>
    /\ ret = Some(TRUE)
    /\ Len(available_nodes) = 3
    /\ \A i \in 1..3 : available_nodes[i].last_health_check = MaxClock
    /\ available_nodes[2].health = "Unhealthy"
    /\ current_target # None
    /\ current_target[1].last_health_check = 0
    /\ status = "Transferring"

\* ---- C30
Requests ==
    {"start_offload", "cancel_offload", "pause_offload", "resume_offload",
     "select_target_node", "auto_select_target_node"}

C30_Step ==
    op'[1] \in Requests
      => /\ ret' = Some(FALSE)
              => /\ Len(events') = 1
                 /\ events'[1][1] = "error"
                 /\ core' = core
         /\ ret' = Some(TRUE)
              => \A i \in 1..Len(events') : events'[i][1] # "error"

\* C30: with no hook installed, a start, cancel, pause, resume,
\* select_target_node or auto_select_target_node that returns false fires
\* exactly one error event and no other event and leaves status, progress,
\* current target, last result and data ids unchanged; one that returns true
\* fires no error event.
C30_RejectionsReportOnce == [][C30_Step]_vars

\* a resume was rejected while Transferring with 80 MB transferred
C30_Witness ==
    /\ op = <<"resume_offload">>
    /\ ret = Some(FALSE)
    /\ events = << <<"error", <<"Cannot resume: not paused">> >> >>
    /\ status = "Transferring"
    /\ progress.transferred_bytes = 80
    /\ current_target # None

\* ---- C31
\* C31: with no force_status call and no start hook, last_result is present
\* exactly when status is Completed, Failed or Cancelled, and its success
\* flag is true exactly when status is Completed.
C31_ResultIffTerminal ==
    /\ last_result # None <=> status \in TerminalStatuses
    /\ last_result # None
         => (last_result[1].success <=> status = "Completed")

\* a late simulate_complete(false) took a Completed operation to Failed and
\* the result now says unsuccessful
C31_Witness ==
    /\ op = <<"simulate_complete", FALSE>>
    /\ events[1] = <<"status", "Completed", "Failed">>
    /\ status = "Failed"
    /\ last_result # None
    /\ last_result[1].success = FALSE
    /\ last_result[1].final_progress.transferred_bytes = MockTotalBytes

\* ---- C32
\* the selected target is a node of the registry that is admissible now
TargetAdmissibleNow ==
    /\ current_target # None
    /\ \E i \in 1..Len(available_nodes) :
          /\ available_nodes[i].node_id = current_target[1].node_id
          /\ Admissible(available_nodes[i])

\* C32 as stated: whenever start_offload is accepted, the selected target is
\* at that moment a node of the registry that passes the admission
\* predicate.
C32_Original ==
    [][ (op'[1] = "start_offload" /\ ret' = Some(TRUE))
          => TargetAdmissibleNow ]_vars

\* C32 amended: whenever start_offload is accepted with no start hook
\* installed, a target is selected and the selected record, the copy of the
\* node taken when it was selected, passes the admission predicate.
C32_TargetAdmissibleWhenSelected ==
    [][ (op'[1] = "start_offload" /\ ret' = Some(TRUE) /\ start_hook = None)
          => /\ current_target # None
             /\ Admissible(current_target[1]) ]_vars

\* a start was accepted for node2 after node2 became Unhealthy in the
\* registry
C32_Witness ==
    /\ op[1] = "start_offload"
    /\ ret = Some(TRUE)
    /\ current_target # None
    /\ current_target[1].node_id = "node2"
    /\ current_target[1].health = "Healthy"
    /\ Len(available_nodes) = 3
    /\ available_nodes[2].node_id = "node2"
    /\ available_nodes[2].health = "Unhealthy"

\* ---- C33
\* C33 as stated: in every reachable state transferred_bytes <= total_bytes
\* and segments_completed <= segments_total.
C33_ProgressWithinTotals ==
    /\ progress.transferred_bytes <= progress.total_bytes
    /\ progress.segments_completed <= progress.segments_total

\* ---- C34
\* the positions of a reader that holds the lock
ReadingPcs ==
    {"gs_read", "gs_unlock", "gp_read", "gp_unlock", "ia_read", "ia_unlock"}

\* C34: every subscriber callback runs while the calling thread holds the
\* lock; a call of get_status or get_progress made from inside a callback
\* never returns, and as long as a callback runs no other thread can enter
\* or be inside a read.
C34_CallbacksUnderLock ==
    /\ \A t \in Threads :
          (CallbackRunning(t) \/ pc[t] = "cb_blocked") =>
              /\ mutex = Some(t)
              /\ \A u \in Threads \ {t} :
                    /\ pc[u] \notin ReadingPcs
                    /\ ~ENABLED get_status_lock(u)
                    /\ ~ENABLED get_progress_lock(u)
                    /\ ~ENABLED is_active_lock(u)
    /\ ~(op[1] = "callback" /\ ret # None)

\* a status-change subscriber called get_status and waits for the lock its
\* own thread holds, while another thread has not been able to start its call
C34_Witness ==
    \E t \in Threads :
        /\ pc[t] = "cb_blocked"
        /\ mutex = Some(t)
        /\ op = <<"callback", "get_status">>
        /\ events # << >>
        /\ events[Len(events)][1] = "status"
        /\ \E u \in Threads \ {t} : pc[u] = "ready"

====
